---- MODULE Spec2Model ----
(***************************************************************************)
(* Four-way intersection (cruzamento-quatro-vias.c): car threads,          *)
(* ambulance threads and the controller thread fluxo_trafego, all          *)
(* synchronised by cruzamento.lock and the condition variable              *)
(* cruzamento.pode_cruzar.                                                 *)
(*                                                                         *)
(* A sleep() is an arbitrary delay: a sleeping thread may take its next    *)
(* step at any later moment.  pthread_cond_wait releases the lock and      *)
(* suspends the caller; pthread_cond_broadcast makes every suspended       *)
(* thread runnable, and each of them re-acquires the lock before it        *)
(* re-evaluates its loop condition.                                        *)
(***************************************************************************)
EXTENDS Integers, FiniteSets, Sequences, TLC

\* ---- population (scaled down from the #defines TOTAL_CARROS, TOTAL_AMBULANCIAS)
NumCarros == 2
NumAmbulancias == 2

Carros == 1..NumCarros
Ambulancias == 1..NumAmbulancias

\* ---- enums
Direcao == {"NORTE", "SUL", "LESTE", "OESTE"}
EstadoFluxo == {"FLUXO_NS", "FLUXO_LO", "AMBULANCIA_NS", "AMBULANCIA_LO"}
TIPO_CARRO == "TIPO_CARRO"
TIPO_AMBULANCIA == "TIPO_AMBULANCIA"

\* ---- timing parameters (T_BASE and FATOR_CARRO in tenths of a second)
T_MINIMO == 5
T_MAXIMO == 20
T_BASE_x10 == 18
FATOR_CARRO_x10 == 22

VARIABLES
    carros_esperando,           \* cruzamento.carros_esperando[NUM_DIRECOES]
    ambulancias_esperando,      \* cruzamento.ambulancias_esperando[NUM_DIRECOES]
    carros_no_cruzamento,       \* cruzamento.carros_no_cruzamento
    ambulancias_no_cruzamento,  \* cruzamento.ambulancias_no_cruzamento
    modo_emergencia,            \* cruzamento.modo_emergencia
    estado_atual,               \* cruzamento.estado_atual
    lock,                       \* owner of cruzamento.lock
    direcao_carro,              \* args->direcao of each car thread
    direcao_ambulancia,         \* args->direcao of each ambulance thread
    pc_carro,                   \* position of each car thread
    pc_amb,                     \* position of each ambulance thread
    pc_fluxo,                   \* position of the controller thread
    proximo_estado,             \* fluxo_trafego local
    tempo_final,                \* fluxo_trafego local
    i                           \* fluxo_trafego local (window loop counter)

vars == <<carros_esperando, ambulancias_esperando, carros_no_cruzamento,
          ambulancias_no_cruzamento, modo_emergencia, estado_atual, lock,
          direcao_carro, direcao_ambulancia, pc_carro, pc_amb, pc_fluxo,
          proximo_estado, tempo_final, i>>

compartilhado == <<carros_esperando, ambulancias_esperando, carros_no_cruzamento,
                   ambulancias_no_cruzamento, modo_emergencia, estado_atual>>
locais_fluxo == <<proximo_estado, tempo_final, i>>
direcoes == <<direcao_carro, direcao_ambulancia>>

\* ---- lock owners
Livre == <<"livre", 0>>
ThFluxo == <<"fluxo", 0>>
ThCarro(c) == <<"carro", c>>
ThAmb(a) == <<"amb", a>>

\* ---- axes
EixoNS(dir) == dir = "NORTE" \/ dir = "SUL"
EixoLO(dir) == dir = "LESTE" \/ dir = "OESTE"

\* pode_passar without the test of modo_emergencia for cars
pode_passar_sem_flag(dir, estado, tipo) ==
    IF (estado = "AMBULANCIA_NS" \/ estado = "AMBULANCIA_LO") /\ tipo # TIPO_AMBULANCIA
    THEN FALSE
    ELSE IF EixoNS(dir) /\ (estado = "FLUXO_NS" \/ estado = "AMBULANCIA_NS") THEN TRUE
    ELSE IF EixoLO(dir) /\ (estado = "FLUXO_LO" \/ estado = "AMBULANCIA_LO") THEN TRUE
    ELSE FALSE

\* pode_passar without the test of the direction against the flow
pode_passar_sem_eixo(dir, estado, tipo) ==
    IF (estado = "AMBULANCIA_NS" \/ estado = "AMBULANCIA_LO") /\ tipo # TIPO_AMBULANCIA
    THEN FALSE
    ELSE IF modo_emergencia /\ tipo = TIPO_CARRO THEN FALSE
    ELSE TRUE

\* pode_passar without the test that bars cars under an ambulance selector
pode_passar_sem_modo_ambulancia(dir, estado, tipo) ==
    IF modo_emergencia /\ tipo = TIPO_CARRO THEN FALSE
    ELSE IF EixoNS(dir) /\ (estado = "FLUXO_NS" \/ estado = "AMBULANCIA_NS") THEN TRUE
    ELSE IF EixoLO(dir) /\ (estado = "FLUXO_LO" \/ estado = "AMBULANCIA_LO") THEN TRUE
    ELSE FALSE

\* pode_passar that lets an ambulance pass under an ambulance selector only
pode_passar_so_seletor_ambulancia(dir, estado, tipo) ==
    IF (estado = "AMBULANCIA_NS" \/ estado = "AMBULANCIA_LO") /\ tipo # TIPO_AMBULANCIA
    THEN FALSE
    ELSE IF modo_emergencia /\ tipo = TIPO_CARRO THEN FALSE
    ELSE IF (estado = "FLUXO_NS" \/ estado = "FLUXO_LO") /\ tipo = TIPO_AMBULANCIA
    THEN FALSE
    ELSE IF EixoNS(dir) /\ (estado = "FLUXO_NS" \/ estado = "AMBULANCIA_NS") THEN TRUE
    ELSE IF EixoLO(dir) /\ (estado = "FLUXO_LO" \/ estado = "AMBULANCIA_LO") THEN TRUE
    ELSE FALSE

\* int pode_passar(Direcao dir, EstadoFluxo estado, TipoVeiculo tipo), reading
\* cruzamento.modo_emergencia
pode_passar(dir, estado, tipo) ==
    IF (estado = "AMBULANCIA_NS" \/ estado = "AMBULANCIA_LO") /\ tipo # TIPO_AMBULANCIA
    THEN FALSE
    ELSE IF modo_emergencia /\ tipo = TIPO_CARRO THEN FALSE
    ELSE IF EixoNS(dir) /\ (estado = "FLUXO_NS" \/ estado = "AMBULANCIA_NS") THEN TRUE
    ELSE IF EixoLO(dir) /\ (estado = "FLUXO_LO" \/ estado = "AMBULANCIA_LO") THEN TRUE
    ELSE FALSE

\* pthread_cond_broadcast(&cruzamento.pode_cruzar) as seen by vehicle threads:
\* every thread suspended in pthread_cond_wait becomes runnable
Acorda(pcs) ==
    [t \in DOMAIN pcs |-> IF pcs[t] = "dormindo" THEN "acordado" ELSE pcs[t]]

\* ... and as seen by the controller, which waits at three places
AcordaFluxo(p) ==
    CASE p = "dorme_drena_e" -> "acorda_drena_e"
      [] p = "dorme_passiva" -> "acorda_passiva"
      [] p = "dorme_drena_n" -> "acorda_drena_n"
      [] OTHER -> p

\* tempo_final: (int)(T_BASE + (num_carros - 1) * FATOR_CARRO), or (int)T_BASE
\* when num_carros = 0, clamped to [T_MINIMO, T_MAXIMO]
TempoCalculado_x10(num_carros) ==
    IF num_carros > 0 THEN T_BASE_x10 + (num_carros - 1) * FATOR_CARRO_x10
    ELSE T_BASE_x10

\* tempo_final without the upper limit T_MAXIMO
TempoFinal_sem_maximo(num_carros) ==
    LET truncado == TempoCalculado_x10(num_carros) \div 10
    IN  IF truncado < T_MINIMO THEN T_MINIMO ELSE truncado

\* tempo_final rounded to the nearest second instead of truncated
TempoFinal_arredonda(num_carros) ==
    LET arredondado == (TempoCalculado_x10(num_carros) + 5) \div 10
    IN  IF arredondado > T_MAXIMO THEN T_MAXIMO
        ELSE IF arredondado < T_MINIMO THEN T_MINIMO
        ELSE arredondado

TempoFinal(num_carros) ==
    LET truncado == TempoCalculado_x10(num_carros) \div 10
    IN  IF truncado > T_MAXIMO THEN T_MAXIMO
        ELSE IF truncado < T_MINIMO THEN T_MINIMO
        ELSE truncado

\* ---- main(): initialisation and thread creation.
\* Populations are scaled down from CARROS_x / AMBULANCIA_x.  A population
\* that alternates between the two axes (NORTE, LESTE, SUL, OESTE, NORTE, ...)
DirecaoAlternada(k) ==
    CASE k % 4 = 1 -> "NORTE"
      [] k % 4 = 2 -> "LESTE"
      [] k % 4 = 3 -> "SUL"
      [] OTHER -> "OESTE"

\* ... and a population that arrives from the East-West axis only
DirecaoLesteOeste(k) == IF k % 2 = 1 THEN "LESTE" ELSE "OESTE"

\* Cars come from both axes; ambulances come either from both axes or from
\* the East-West axis only.
Init ==
    /\ carros_esperando = [d \in Direcao |-> 0]
    /\ ambulancias_esperando = [d \in Direcao |-> 0]
    /\ carros_no_cruzamento = 0
    /\ ambulancias_no_cruzamento = 0
    /\ modo_emergencia = FALSE
    /\ estado_atual = "FLUXO_NS"
    /\ lock = Livre
    /\ direcao_carro = [c \in Carros |-> DirecaoAlternada(c)]
    /\ direcao_ambulancia \in {[a \in Ambulancias |-> DirecaoAlternada(a)],
                               [a \in Ambulancias |-> DirecaoLesteOeste(a)]}
    /\ pc_carro = [c \in Carros |-> "aproximando"]
    /\ pc_amb = [a \in Ambulancias |-> "inicio"]
    /\ pc_fluxo = "pausa"
    \* fluxo_trafego's locals are written before they are first read
    /\ proximo_estado = "indefinido"
    /\ tempo_final = 0
    /\ i = 0

\* ======================= void * carros(void *arg) =======================

\* sleep(tempo); pthread_mutex_lock(&cruzamento.lock)
CarroLockChegada(c) ==
    /\ pc_carro[c] = "aproximando"
    /\ lock = Livre
    /\ lock' = ThCarro(c)
    /\ pc_carro' = [pc_carro EXCEPT ![c] = "enfileira"]
    /\ UNCHANGED <<compartilhado, direcoes, pc_amb, pc_fluxo, locais_fluxo>>

\* the arrival without carros_esperando[direcao_carro]++
CarroEnfileira_sem_incremento(c) ==
    /\ pc_carro[c] = "enfileira"
    /\ pc_carro' = [pc_carro EXCEPT ![c] = "testa"]
    /\ UNCHANGED <<compartilhado, lock, direcoes, pc_amb, pc_fluxo, locais_fluxo>>

\* cruzamento.carros_esperando[direcao_carro]++
CarroEnfileira(c) ==
    /\ pc_carro[c] = "enfileira"
    /\ carros_esperando' =
          [carros_esperando EXCEPT ![direcao_carro[c]] = @ + 1]
    /\ pc_carro' = [pc_carro EXCEPT ![c] = "testa"]
    /\ UNCHANGED <<ambulancias_esperando, carros_no_cruzamento,
                   ambulancias_no_cruzamento, modo_emergencia, estado_atual,
                   lock, direcoes, pc_amb, pc_fluxo, locais_fluxo>>

\* while(!pode_passar(...)) pthread_cond_wait(...): condition false
CarroEspera(c) ==
    /\ pc_carro[c] = "testa"
    /\ ~pode_passar(direcao_carro[c], estado_atual, TIPO_CARRO)
    /\ pc_carro' = [pc_carro EXCEPT ![c] = "dormindo"]
    /\ lock' = Livre
    /\ UNCHANGED <<compartilhado, direcoes, pc_amb, pc_fluxo, locais_fluxo>>

\* pthread_cond_wait returns: the woken car re-acquires the lock
CarroAcorda(c) ==
    /\ pc_carro[c] = "acordado"
    /\ lock = Livre
    /\ lock' = ThCarro(c)
    /\ pc_carro' = [pc_carro EXCEPT ![c] = "testa"]
    /\ UNCHANGED <<compartilhado, direcoes, pc_amb, pc_fluxo, locais_fluxo>>

\* loop exit: carros_esperando--, carros_no_cruzamento++, unlock
CarroEntra(c) ==
    /\ pc_carro[c] = "testa"
    /\ pode_passar(direcao_carro[c], estado_atual, TIPO_CARRO)
    /\ carros_esperando' =
          [carros_esperando EXCEPT ![direcao_carro[c]] = @ - 1]
    /\ carros_no_cruzamento' = carros_no_cruzamento + 1
    /\ pc_carro' = [pc_carro EXCEPT ![c] = "cruzando"]
    /\ lock' = Livre
    /\ UNCHANGED <<ambulancias_esperando, ambulancias_no_cruzamento,
                   modo_emergencia, estado_atual, direcoes, pc_amb, pc_fluxo,
                   locais_fluxo>>

\* sleep(3); pthread_mutex_lock(&cruzamento.lock)
CarroLockSaida(c) ==
    /\ pc_carro[c] = "cruzando"
    /\ lock = Livre
    /\ lock' = ThCarro(c)
    /\ pc_carro' = [pc_carro EXCEPT ![c] = "saindo"]
    /\ UNCHANGED <<compartilhado, direcoes, pc_amb, pc_fluxo, locais_fluxo>>

\* the exit of a car without pthread_cond_broadcast
CarroSai_sem_broadcast(c) ==
    /\ pc_carro[c] = "saindo"
    /\ carros_no_cruzamento' = carros_no_cruzamento - 1
    /\ pc_carro' = [pc_carro EXCEPT ![c] = "aproximando"]
    /\ lock' = Livre
    /\ UNCHANGED <<carros_esperando, ambulancias_esperando,
                   ambulancias_no_cruzamento, modo_emergencia, estado_atual,
                   direcoes, pc_amb, pc_fluxo, locais_fluxo>>

\* the exit of a car that also clears modo_emergencia
CarroSai_limpa_emergencia(c) ==
    /\ pc_carro[c] = "saindo"
    /\ carros_no_cruzamento' = carros_no_cruzamento - 1
    /\ modo_emergencia' = FALSE
    /\ pc_carro' = [Acorda(pc_carro) EXCEPT ![c] = "aproximando"]
    /\ pc_amb' = Acorda(pc_amb)
    /\ pc_fluxo' = AcordaFluxo(pc_fluxo)
    /\ lock' = Livre
    /\ UNCHANGED <<carros_esperando, ambulancias_esperando,
                   ambulancias_no_cruzamento, estado_atual,
                   direcoes, locais_fluxo>>

\* carros_no_cruzamento--; broadcast; unlock
CarroSai(c) ==
    /\ pc_carro[c] = "saindo"
    /\ carros_no_cruzamento' = carros_no_cruzamento - 1
    /\ pc_carro' = [Acorda(pc_carro) EXCEPT ![c] = "aproximando"]
    /\ pc_amb' = Acorda(pc_amb)
    /\ pc_fluxo' = AcordaFluxo(pc_fluxo)
    /\ lock' = Livre
    /\ UNCHANGED <<carros_esperando, ambulancias_esperando,
                   ambulancias_no_cruzamento, modo_emergencia, estado_atual,
                   direcoes, locais_fluxo>>

carros(c) ==
    \/ CarroLockChegada(c)
    \/ CarroEnfileira(c)
    \/ CarroEspera(c)
    \/ CarroAcorda(c)
    \/ CarroEntra(c)
    \/ CarroLockSaida(c)
    \/ CarroSai(c)

\* ===================== void * ambulancia(void* arg) =====================

\* pthread_mutex_lock(&cruzamento.lock) before the announcement
AmbLockAnuncio(a) ==
    /\ pc_amb[a] = "inicio"
    /\ lock = Livre
    /\ lock' = ThAmb(a)
    /\ pc_amb' = [pc_amb EXCEPT ![a] = "anuncia"]
    /\ UNCHANGED <<compartilhado, direcoes, pc_carro, pc_fluxo, locais_fluxo>>

\* the announcement without pthread_mutex_unlock before the grace delay
AmbAnuncia_sem_unlock(a) ==
    /\ pc_amb[a] = "anuncia"
    /\ modo_emergencia' = TRUE
    /\ pc_amb' = [Acorda(pc_amb) EXCEPT ![a] = "graca"]
    /\ pc_carro' = Acorda(pc_carro)
    /\ pc_fluxo' = AcordaFluxo(pc_fluxo)
    /\ UNCHANGED <<carros_esperando, ambulancias_esperando, carros_no_cruzamento,
                   ambulancias_no_cruzamento, estado_atual, lock, direcoes,
                   locais_fluxo>>

\* modo_emergencia = true; broadcast; unlock
AmbAnuncia(a) ==
    /\ pc_amb[a] = "anuncia"
    /\ modo_emergencia' = TRUE
    /\ pc_amb' = [Acorda(pc_amb) EXCEPT ![a] = "graca"]
    /\ pc_carro' = Acorda(pc_carro)
    /\ pc_fluxo' = AcordaFluxo(pc_fluxo)
    /\ lock' = Livre
    /\ UNCHANGED <<carros_esperando, ambulancias_esperando, carros_no_cruzamento,
                   ambulancias_no_cruzamento, estado_atual, direcoes,
                   locais_fluxo>>

\* sleep(1); pthread_mutex_lock(&cruzamento.lock)
AmbLockChegada(a) ==
    /\ pc_amb[a] = "graca"
    /\ lock = Livre
    /\ lock' = ThAmb(a)
    /\ pc_amb' = [pc_amb EXCEPT ![a] = "enfileira"]
    /\ UNCHANGED <<compartilhado, direcoes, pc_carro, pc_fluxo, locais_fluxo>>

\* cruzamento.ambulancias_esperando[direcao_ambulancia]++
AmbEnfileira(a) ==
    /\ pc_amb[a] = "enfileira"
    /\ ambulancias_esperando' =
          [ambulancias_esperando EXCEPT ![direcao_ambulancia[a]] = @ + 1]
    /\ pc_amb' = [pc_amb EXCEPT ![a] = "testa"]
    /\ UNCHANGED <<carros_esperando, carros_no_cruzamento,
                   ambulancias_no_cruzamento, modo_emergencia, estado_atual,
                   lock, direcoes, pc_carro, pc_fluxo, locais_fluxo>>

\* while(!pode_passar(...)) pthread_cond_wait(...): condition false
AmbEspera(a) ==
    /\ pc_amb[a] = "testa"
    /\ ~pode_passar(direcao_ambulancia[a], estado_atual, TIPO_AMBULANCIA)
    /\ pc_amb' = [pc_amb EXCEPT ![a] = "dormindo"]
    /\ lock' = Livre
    /\ UNCHANGED <<compartilhado, direcoes, pc_carro, pc_fluxo, locais_fluxo>>

\* pthread_cond_wait returns: the woken ambulance re-acquires the lock
AmbAcorda(a) ==
    /\ pc_amb[a] = "acordado"
    /\ lock = Livre
    /\ lock' = ThAmb(a)
    /\ pc_amb' = [pc_amb EXCEPT ![a] = "testa"]
    /\ UNCHANGED <<compartilhado, direcoes, pc_carro, pc_fluxo, locais_fluxo>>

\* loop exit: ambulancias_esperando--, ambulancias_no_cruzamento++, unlock
AmbEntra(a) ==
    /\ pc_amb[a] = "testa"
    /\ pode_passar(direcao_ambulancia[a], estado_atual, TIPO_AMBULANCIA)
    /\ ambulancias_esperando' =
          [ambulancias_esperando EXCEPT ![direcao_ambulancia[a]] = @ - 1]
    /\ ambulancias_no_cruzamento' = ambulancias_no_cruzamento + 1
    /\ pc_amb' = [pc_amb EXCEPT ![a] = "cruzando"]
    /\ lock' = Livre
    /\ UNCHANGED <<carros_esperando, carros_no_cruzamento, modo_emergencia,
                   estado_atual, direcoes, pc_carro, pc_fluxo, locais_fluxo>>

\* sleep(2); pthread_mutex_lock(&cruzamento.lock)
AmbLockSaida(a) ==
    /\ pc_amb[a] = "cruzando"
    /\ lock = Livre
    /\ lock' = ThAmb(a)
    /\ pc_amb' = [pc_amb EXCEPT ![a] = "saindo"]
    /\ UNCHANGED <<compartilhado, direcoes, pc_carro, pc_fluxo, locais_fluxo>>

\* ambulancias_no_cruzamento--; modo_emergencia = false; broadcast; unlock;
\* then the long idle sleep before the next episode
AmbSai(a) ==
    /\ pc_amb[a] = "saindo"
    /\ ambulancias_no_cruzamento' = ambulancias_no_cruzamento - 1
    /\ modo_emergencia' = FALSE
    /\ pc_amb' = [Acorda(pc_amb) EXCEPT ![a] = "inicio"]
    /\ pc_carro' = Acorda(pc_carro)
    /\ pc_fluxo' = AcordaFluxo(pc_fluxo)
    /\ lock' = Livre
    /\ UNCHANGED <<carros_esperando, ambulancias_esperando, carros_no_cruzamento,
                   estado_atual, direcoes, locais_fluxo>>

ambulancia(a) ==
    \/ AmbLockAnuncio(a)
    \/ AmbAnuncia(a)
    \/ AmbLockChegada(a)
    \/ AmbEnfileira(a)
    \/ AmbEspera(a)
    \/ AmbAcorda(a)
    \/ AmbEntra(a)
    \/ AmbLockSaida(a)
    \/ AmbSai(a)

\* =================== void * fluxo_trafego(void* arg) ====================

\* sleep(2); pthread_mutex_lock(&cruzamento.lock)
FluxoLock ==
    /\ pc_fluxo = "pausa"
    /\ lock = Livre
    /\ lock' = ThFluxo
    /\ pc_fluxo' = "modo"
    /\ UNCHANGED <<compartilhado, direcoes, pc_carro, pc_amb, locais_fluxo>>

\* if(cruzamento.modo_emergencia) ... else ...
FluxoModo ==
    /\ pc_fluxo = "modo"
    /\ pc_fluxo' = IF modo_emergencia THEN "drena_e" ELSE "drena_n"
    /\ UNCHANGED <<compartilhado, lock, direcoes, pc_carro, pc_amb, locais_fluxo>>

\* while(carros_no_cruzamento > 0) pthread_cond_wait(...): condition true
\* (both branches)
FluxoDrenaEspera ==
    /\ pc_fluxo \in {"drena_e", "drena_n"}
    /\ carros_no_cruzamento > 0
    /\ pc_fluxo' = IF pc_fluxo = "drena_e" THEN "dorme_drena_e" ELSE "dorme_drena_n"
    /\ lock' = Livre
    /\ UNCHANGED <<compartilhado, direcoes, pc_carro, pc_amb, locais_fluxo>>

\* the drain loop ends although cars are still inside
FluxoDrenaFim_sem_espera ==
    /\ pc_fluxo \in {"drena_e", "drena_n"}
    /\ pc_fluxo' = IF pc_fluxo = "drena_e" THEN "decide_e" ELSE "decide_n"
    /\ UNCHANGED <<compartilhado, lock, direcoes, pc_carro, pc_amb, locais_fluxo>>

\* while(carros_no_cruzamento > 0): condition false, the loop ends
FluxoDrenaFim ==
    /\ pc_fluxo \in {"drena_e", "drena_n"}
    /\ ~(carros_no_cruzamento > 0)
    /\ pc_fluxo' = IF pc_fluxo = "drena_e" THEN "decide_e" ELSE "decide_n"
    /\ UNCHANGED <<compartilhado, lock, direcoes, pc_carro, pc_amb, locais_fluxo>>

\* pthread_cond_wait returns in one of the three loops: re-acquire the lock
\* and go back to the loop condition
FluxoAcorda ==
    /\ pc_fluxo \in {"acorda_drena_e", "acorda_drena_n", "acorda_passiva"}
    /\ lock = Livre
    /\ lock' = ThFluxo
    /\ pc_fluxo' = CASE pc_fluxo = "acorda_drena_e" -> "drena_e"
                     [] pc_fluxo = "acorda_drena_n" -> "drena_n"
                     [] pc_fluxo = "acorda_passiva" -> "passiva"
    /\ UNCHANGED <<compartilhado, direcoes, pc_carro, pc_amb, locais_fluxo>>

\* emergency decision in which a tie goes to AMBULANCIA_LO
DecisaoEmergencia_empate_lo(esperando) ==
    LET demanda_amb_ns == esperando["NORTE"] + esperando["SUL"]
        demanda_amb_lo == esperando["LESTE"] + esperando["OESTE"]
    IN  IF demanda_amb_ns > demanda_amb_lo THEN "AMBULANCIA_NS" ELSE "AMBULANCIA_LO"

\* emergency decision: demanda_amb_ns >= demanda_amb_lo ? AMBULANCIA_NS : AMBULANCIA_LO
DecisaoEmergencia(esperando) ==
    LET demanda_amb_ns == esperando["NORTE"] + esperando["SUL"]
        demanda_amb_lo == esperando["LESTE"] + esperando["OESTE"]
    IN  IF demanda_amb_ns >= demanda_amb_lo THEN "AMBULANCIA_NS" ELSE "AMBULANCIA_LO"

\* estado_atual = proximo_estado; broadcast (emergency branch)
FluxoDecideEmergencia ==
    /\ pc_fluxo = "decide_e"
    /\ proximo_estado' = DecisaoEmergencia(ambulancias_esperando)
    /\ estado_atual' = DecisaoEmergencia(ambulancias_esperando)
    /\ pc_carro' = Acorda(pc_carro)
    /\ pc_amb' = Acorda(pc_amb)
    /\ pc_fluxo' = "passiva"
    /\ UNCHANGED <<carros_esperando, ambulancias_esperando, carros_no_cruzamento,
                   ambulancias_no_cruzamento, modo_emergencia, lock, direcoes,
                   tempo_final, i>>

\* while(cruzamento.modo_emergencia) pthread_cond_wait(...): condition true
FluxoPassivaEspera ==
    /\ pc_fluxo = "passiva"
    /\ modo_emergencia
    /\ pc_fluxo' = "dorme_passiva"
    /\ lock' = Livre
    /\ UNCHANGED <<compartilhado, direcoes, pc_carro, pc_amb, locais_fluxo>>

\* the passive wait is left without testing modo_emergencia
FluxoPassivaFim_sem_teste ==
    /\ pc_fluxo = "passiva"
    /\ pc_fluxo' = "pausa"
    /\ lock' = Livre
    /\ UNCHANGED <<compartilhado, direcoes, pc_carro, pc_amb, locais_fluxo>>

\* while(cruzamento.modo_emergencia): condition false; unlock; next cycle
FluxoPassivaFim ==
    /\ pc_fluxo = "passiva"
    /\ ~modo_emergencia
    /\ pc_fluxo' = "pausa"
    /\ lock' = Livre
    /\ UNCHANGED <<compartilhado, direcoes, pc_carro, pc_amb, locais_fluxo>>

\* normal decision in which a tie goes to FLUXO_LO
DecisaoNormal_empate_lo(esperando) ==
    LET demanda_ns == esperando["NORTE"] + esperando["SUL"]
        demanda_lo == esperando["LESTE"] + esperando["OESTE"]
    IN  IF demanda_ns > demanda_lo THEN "FLUXO_NS" ELSE "FLUXO_LO"

\* normal decision: demanda_ns >= demanda_lo ? FLUXO_NS : FLUXO_LO
DecisaoNormal(esperando) ==
    LET demanda_ns == esperando["NORTE"] + esperando["SUL"]
        demanda_lo == esperando["LESTE"] + esperando["OESTE"]
    IN  IF demanda_ns >= demanda_lo THEN "FLUXO_NS" ELSE "FLUXO_LO"

\* num_carros of the chosen flow
NumCarrosDecisao(esperando) ==
    LET demanda_ns == esperando["NORTE"] + esperando["SUL"]
        demanda_lo == esperando["LESTE"] + esperando["OESTE"]
    IN  IF demanda_ns >= demanda_lo THEN demanda_ns ELSE demanda_lo

\* estado_atual = proximo_estado; tempo_final; broadcast; unlock; i = 0
FluxoDecideNormal ==
    /\ pc_fluxo = "decide_n"
    /\ proximo_estado' = DecisaoNormal(carros_esperando)
    /\ estado_atual' = DecisaoNormal(carros_esperando)
    /\ tempo_final' = TempoFinal(NumCarrosDecisao(carros_esperando))
    /\ i' = 0
    /\ pc_carro' = Acorda(pc_carro)
    /\ pc_amb' = Acorda(pc_amb)
    /\ pc_fluxo' = "janela"
    /\ lock' = Livre
    /\ UNCHANGED <<carros_esperando, ambulancias_esperando, carros_no_cruzamento,
                   ambulancias_no_cruzamento, modo_emergencia, direcoes>>

\* for(...; i < tempo_final; ...): sleep(1); pthread_mutex_lock
FluxoTickLock ==
    /\ pc_fluxo = "janela"
    /\ i < tempo_final
    /\ lock = Livre
    /\ lock' = ThFluxo
    /\ pc_fluxo' = "tick"
    /\ UNCHANGED <<compartilhado, direcoes, pc_carro, pc_amb, locais_fluxo>>

\* fila_ativa_esvaziou for the flow chosen in this cycle
FilaAtivaEsvaziou(proximo, esperando) ==
    IF proximo = "FLUXO_NS"
    THEN esperando["NORTE"] = 0 /\ esperando["SUL"] = 0
    ELSE esperando["LESTE"] = 0 /\ esperando["OESTE"] = 0

\* a per-tick check that also leaves the window when modo_emergencia is set
FluxoTick_aborta_emergencia ==
    /\ pc_fluxo = "tick"
    /\ lock' = Livre
    /\ IF FilaAtivaEsvaziou(proximo_estado, carros_esperando) \/ modo_emergencia
       THEN /\ pc_fluxo' = "pausa"
            /\ i' = 0
       ELSE /\ pc_fluxo' = "janela"
            /\ i' = i + 1
    /\ UNCHANGED <<compartilhado, direcoes, pc_carro, pc_amb, proximo_estado,
                   tempo_final>>

\* the per-tick check: unlock; break when the queue is empty, else i++.
\* (i is dead once the loop is left, the next for statement starts from
\* i = 0: it is cleared here, so that states that differ only in this dead
\* local are one state.)
FluxoTick ==
    /\ pc_fluxo = "tick"
    /\ lock' = Livre
    /\ IF FilaAtivaEsvaziou(proximo_estado, carros_esperando)
       THEN /\ pc_fluxo' = "pausa"
            /\ i' = 0
       ELSE /\ pc_fluxo' = "janela"
            /\ i' = i + 1
    /\ UNCHANGED <<compartilhado, direcoes, pc_carro, pc_amb, proximo_estado,
                   tempo_final>>

\* for(...; i < tempo_final; ...): condition false, the window is over
\* (i is dead from here on and is cleared, as in FluxoTick)
FluxoJanelaFim ==
    /\ pc_fluxo = "janela"
    /\ ~(i < tempo_final)
    /\ pc_fluxo' = "pausa"
    /\ i' = 0
    /\ UNCHANGED <<compartilhado, lock, direcoes, pc_carro, pc_amb,
                   proximo_estado, tempo_final>>

fluxo_trafego ==
    \/ FluxoLock
    \/ FluxoModo
    \/ FluxoDrenaEspera
    \/ FluxoDrenaFim
    \/ FluxoAcorda
    \/ FluxoDecideEmergencia
    \/ FluxoPassivaEspera
    \/ FluxoPassivaFim
    \/ FluxoDecideNormal
    \/ FluxoTickLock
    \/ FluxoTick
    \/ FluxoJanelaFim

Next ==
    \/ \E c \in Carros : carros(c)
    \/ \E a \in Ambulancias : ambulancia(a)
    \/ fluxo_trafego

Spec == Init /\ [][Next]_vars

\* Populations whose ambulances all come from the East-West axis
InitLesteOeste ==
    /\ Init
    /\ \A a \in Ambulancias : EixoLO(direcao_ambulancia[a])

\* Scheduling: every sleep ends, a thread that holds the lock goes on, and a
\* thread that keeps asking for the lock is not passed over forever (strong
\* fairness per thread, which implies weak fairness of every thread).
\* Liveness is examined on the East-West ambulance populations.
FairSpec ==
    /\ InitLesteOeste
    /\ [][Next]_vars
    /\ \A c \in Carros : SF_vars(carros(c))
    /\ \A a \in Ambulancias : SF_vars(ambulancia(a))
    /\ SF_vars(fluxo_trafego)

\* Populations whose ambulances alternate over the four directions, as the
\* cars do: both axes have priority traffic
InitAlternado ==
    /\ Init
    /\ \A a \in Ambulancias : direcao_ambulancia[a] = DirecaoAlternada(a)

\* The same scheduling assumptions on the alternating populations
FairSpecAlternado ==
    /\ InitAlternado
    /\ [][Next]_vars
    /\ \A c \in Carros : SF_vars(carros(c))
    /\ \A a \in Ambulancias : SF_vars(ambulancia(a))
    /\ SF_vars(fluxo_trafego)

\* ---- the normal decision on its own.
\* The controller is in the normal branch, the drain is over, and it decides
\* with the lock held; the queues hold any number of cars up to MaxFila per
\* direction (the program runs up to CARROS_NORTE = 15 cars per direction),
\* and the previous window was on either axis.
MaxFila == 10

InitDecisaoNormal ==
    /\ carros_esperando \in [Direcao -> 0..MaxFila]
    /\ ambulancias_esperando = [d \in Direcao |-> 0]
    /\ carros_no_cruzamento = 0
    /\ ambulancias_no_cruzamento = 0
    /\ modo_emergencia = FALSE
    /\ estado_atual \in {"FLUXO_NS", "FLUXO_LO"}
    /\ lock = ThFluxo
    /\ direcao_carro = [c \in Carros |-> DirecaoAlternada(c)]
    /\ direcao_ambulancia = [a \in Ambulancias |-> DirecaoAlternada(a)]
    /\ pc_carro = [c \in Carros |-> "dormindo"]
    /\ pc_amb = [a \in Ambulancias |-> "inicio"]
    /\ pc_fluxo = "decide_n"
    /\ proximo_estado = "indefinido"
    /\ tempo_final = 0
    /\ i = 0

SpecDecisaoNormal == InitDecisaoNormal /\ [][FluxoDecideNormal]_vars

\* ======================= observers used by the claims ===================

\* a car is inside the intersection from carros_no_cruzamento++ until
\* carros_no_cruzamento-- (it holds the lock in "saindo", not yet counted out)
CarroDentro(c) == pc_carro[c] \in {"cruzando", "saindo"}

\* an ambulance is inside from ambulancias_no_cruzamento++ until
\* ambulancias_no_cruzamento--
AmbDentro(a) == pc_amb[a] \in {"cruzando", "saindo"}

\* an ambulance that has announced (modo_emergencia = true was executed) and
\* has not yet left the intersection
AmbAnunciada(a) ==
    pc_amb[a] \in {"graca", "enfileira", "testa", "dormindo", "acordado",
                   "cruzando", "saindo"}

CarrosDentroNS == {c \in Carros : CarroDentro(c) /\ EixoNS(direcao_carro[c])}
CarrosDentroLO == {c \in Carros : CarroDentro(c) /\ EixoLO(direcao_carro[c])}
AmbsDentroNS == {a \in Ambulancias : AmbDentro(a) /\ EixoNS(direcao_ambulancia[a])}
AmbsDentroLO == {a \in Ambulancias : AmbDentro(a) /\ EixoLO(direcao_ambulancia[a])}

\* the axis encoded in a flow selector / of a direction
EixoDoEstado(estado) ==
    IF estado = "FLUXO_NS" \/ estado = "AMBULANCIA_NS" THEN "NS" ELSE "LO"
EixoDaDirecao(dir) == IF EixoNS(dir) THEN "NS" ELSE "LO"

\* the step in which a car / an ambulance leaves the wait loop and enters
CarroAdmitido(c) == pc_carro[c] = "testa" /\ pc_carro'[c] = "cruzando"
AmbAdmitida(a) == pc_amb[a] = "testa" /\ pc_amb'[a] = "cruzando"

\* ================================ claims ================================

\* C1: cars of the North-South axis and cars of the East-West axis are never
\* inside the intersection at the same time.
C1_ExclusaoMutuaCarros ==
    ~(CarrosDentroNS # {} /\ CarrosDentroLO # {})

\* a car of the East-West axis is inside while a North-South car is suspended
C1_Witness ==
    \E c1, c2 \in Carros :
        /\ CarroDentro(c1) /\ EixoLO(direcao_carro[c1])
        /\ pc_carro[c2] = "dormindo" /\ EixoNS(direcao_carro[c2])

\* C2: every vehicle inside the intersection, car or ambulance, belongs to
\* the axis encoded in estado_atual: the axis that is not open has nobody
\* inside.
C2_SoEixoAbertoDentro ==
    /\ EixoDoEstado(estado_atual) = "NS" =>
          CarrosDentroLO = {} /\ AmbsDentroLO = {}
    /\ EixoDoEstado(estado_atual) = "LO" =>
          CarrosDentroNS = {} /\ AmbsDentroNS = {}

\* C3: cars and ambulances are never inside the intersection together.
C3_PrioridadeSemOrdinarios ==
    ~(carros_no_cruzamento > 0 /\ ambulancias_no_cruzamento > 0)

\* C4: while modo_emergencia is true no car goes from waiting to crossing.
C4_PreempcaoPrioridade ==
    [][\A c \in Carros : CarroAdmitido(c) => ~modo_emergencia]_vars

\* a car is suspended, refused under the normal selector of its own axis
\* because the flag is set
C4_Witness ==
    \E c \in Carros :
        /\ pc_carro[c] = "dormindo"
        /\ modo_emergencia
        /\ estado_atual \in {"FLUXO_NS", "FLUXO_LO"}
        /\ EixoDoEstado(estado_atual) = EixoDaDirecao(direcao_carro[c])

\* C5: no ambulance goes from waiting to crossing while carros_no_cruzamento > 0.
C5_AmbulanciaSoComCruzamentoVazio ==
    [][\A a \in Ambulancias : AmbAdmitida(a) => carros_no_cruzamento = 0]_vars

\* C6: the controller writes estado_atual, in either branch, only in a state
\* where carros_no_cruzamento = 0.
C6_DrenaAntesDeTrocar ==
    pc_fluxo \in {"decide_e", "decide_n"} => carros_no_cruzamento = 0

\* the drain is over and the controller is about to switch the open axis
\* from East-West to North-South
C6_Witness ==
    /\ pc_fluxo \in {"decide_e", "decide_n"}
    /\ EixoDoEstado(estado_atual) = "LO"
    /\ pc_fluxo = "decide_n" => DecisaoNormal(carros_esperando) = "FLUXO_NS"
    /\ pc_fluxo = "decide_e" =>
          DecisaoEmergencia(ambulancias_esperando) = "AMBULANCIA_NS"

\* C7: whenever a car or an ambulance is admitted, the axis of its direction
\* is the axis encoded in estado_atual at that instant.
C7_ConsistenciaDeEixo ==
    [][/\ \A c \in Carros : CarroAdmitido(c) =>
              EixoDaDirecao(direcao_carro[c]) = EixoDoEstado(estado_atual)
       /\ \A a \in Ambulancias : AmbAdmitida(a) =>
              EixoDaDirecao(direcao_ambulancia[a]) = EixoDoEstado(estado_atual)]_vars

\* an East-West ambulance has been admitted under AMBULANCIA_LO while a
\* North-South ambulance is kept suspended
C7_Witness ==
    \E a1, a2 \in Ambulancias :
        /\ pc_amb[a1] = "cruzando" /\ EixoLO(direcao_ambulancia[a1])
        /\ estado_atual = "AMBULANCIA_LO"
        /\ pc_amb[a2] = "dormindo" /\ EixoNS(direcao_ambulancia[a2])

\* C8 (as claimed): with the lock free, carros_no_cruzamento > 0 implies a
\* normal selector and modo_emergencia = false.
C8_CarrosDentroSemEmergencia ==
    (lock = Livre /\ carros_no_cruzamento > 0) =>
        (estado_atual \in {"FLUXO_NS", "FLUXO_LO"} /\ ~modo_emergencia)

\* C8 (amended): with the lock free, carros_no_cruzamento > 0 implies that
\* estado_atual is one of the two normal selectors.
C8_CarrosDentroFluxoNormal ==
    (lock = Livre /\ carros_no_cruzamento > 0) =>
        estado_atual \in {"FLUXO_NS", "FLUXO_LO"}

\* cars are still inside, with the lock free, after an announcement
C8_Witness ==
    lock = Livre /\ carros_no_cruzamento > 0 /\ modo_emergencia

\* C9: modo_emergencia is true in every state in which some ambulance has
\* announced and has not yet left the intersection.
C9_EmergenciaAteUltimaSair ==
    \A a \in Ambulancias : AmbAnunciada(a) => modo_emergencia

\* C10: under fairness, every ambulance that has announced is eventually
\* admitted into the intersection.
C10_AmbulanciaAdmitida ==
    \A a \in Ambulancias : (pc_amb[a] = "graca") ~> (pc_amb[a] = "cruzando")

\* a car that has executed carros_esperando[dir]++ and has not yet been
\* admitted (it tests pode_passar, is suspended, or is about to test again)
CarroNaFila(c) == pc_carro[c] \in {"testa", "dormindo", "acordado"}

\* C11: under fairness, every car that has joined the queue of its direction
\* is eventually admitted into the intersection, on either axis.
C11_CarroAdmitido ==
    \A c \in Carros : CarroNaFila(c) ~> (pc_carro[c] = "cruzando")

\* C12: under fairness, whenever modo_emergencia is true it becomes false
\* again, and the controller afterwards opens a normal window.
C12_EmergenciaTermina ==
    /\ modo_emergencia ~> ~modo_emergencia
    /\ modo_emergencia ~> (pc_fluxo = "janela")

\* the two demands the normal branch computes
DemandaNS == carros_esperando["NORTE"] + carros_esperando["SUL"]
DemandaLO == carros_esperando["LESTE"] + carros_esperando["OESTE"]

\* C13: every window the normal branch opens lasts at least T_MINIMO (5) and
\* at most T_MAXIMO (20) seconds, whatever the demand.
C13_JanelaLimitada ==
    pc_fluxo = "janela" => (5 <= tempo_final /\ tempo_final <= 20)

\* a window opened for a demand whose computed time exceeds T_MAXIMO
C13_Witness ==
    /\ pc_fluxo = "janela"
    /\ DemandaNS >= 11
    /\ DemandaNS >= DemandaLO
    /\ tempo_final = 20

\* C14: for the demand d of the axis that was opened, the window lasts
\* 1.8 + (d - 1) * 2.2 seconds (1.8 when d = 0) truncated toward zero and then
\* clamped to [5, 20]; demand 1 gives 5, demand 5 gives 10, demand 20 gives 20.
\* (Written in tenths of a second: t is the truncation of r/10 exactly when
\* 10 * t <= r < 10 * t + 10.)
C14_FormulaDaJanela ==
    pc_fluxo = "janela" =>
        LET d == IF DemandaNS >= DemandaLO THEN DemandaNS ELSE DemandaLO
            r == IF d = 0 THEN 18 ELSE 18 + (d - 1) * 22
        IN  /\ r < 50 => tempo_final = 5
            /\ r >= 210 => tempo_final = 20
            /\ (50 <= r /\ r < 210) =>
                   (10 * tempo_final <= r /\ r < 10 * tempo_final + 10)
            /\ d = 1 => tempo_final = 5
            /\ d = 5 => tempo_final = 10
            /\ d = 20 => tempo_final = 20

\* a window opened for demand 5 (10.6 s computed, truncated to 10)
C14_Witness ==
    /\ pc_fluxo = "janela"
    /\ DemandaLO = 5
    /\ DemandaNS < 5
    /\ tempo_final = 10

\* the step in which the controller writes the selector in the normal branch
\* and in the emergency branch
PassoDecideNormal == pc_fluxo = "decide_n" /\ pc_fluxo' = "janela"
PassoDecideEmergencia == pc_fluxo = "decide_e" /\ pc_fluxo' = "passiva"

C16_AlternaNoEmpate ==
    [][PassoDecideNormal =>
          /\ DemandaLO > DemandaNS => estado_atual' = "FLUXO_LO"
          /\ DemandaNS > DemandaLO => estado_atual' = "FLUXO_NS"
          /\ DemandaNS = DemandaLO =>
                 EixoDoEstado(estado_atual') # EixoDoEstado(estado_atual)]_vars

C18_ContadoresNaoNegativos ==
    /\ \A d \in Direcao : carros_esperando[d] >= 0 /\ ambulancias_esperando[d] >= 0
    /\ carros_no_cruzamento >= 0
    /\ ambulancias_no_cruzamento >= 0

\* every counter is back at 0 after an emergency episode under AMBULANCIA_LO:
\* vehicles have been counted in and out
C18_Witness ==
    /\ \A d \in Direcao : carros_esperando[d] = 0 /\ ambulancias_esperando[d] = 0
    /\ carros_no_cruzamento = 0
    /\ ambulancias_no_cruzamento = 0
    /\ estado_atual = "AMBULANCIA_LO"
    /\ ~modo_emergencia
    /\ \E c \in Carros : pc_carro[c] = "aproximando" /\ EixoLO(direcao_carro[c])

\* the two demands the emergency branch computes
DemandaAmbNS == ambulancias_esperando["NORTE"] + ambulancias_esperando["SUL"]
DemandaAmbLO == ambulancias_esperando["LESTE"] + ambulancias_esperando["OESTE"]

\* C19: the emergency decision sets AMBULANCIA_LO only when the East-West sum
\* of ambulancias_esperando is strictly greater than the North-South sum at
\* that instant; otherwise, 0 and 0 included, it sets AMBULANCIA_NS; and it
\* broadcasts: no thread is left suspended by the step.
C19_DecisaoEmergencia ==
    [][PassoDecideEmergencia =>
          /\ estado_atual' = IF DemandaAmbLO > DemandaAmbNS
                             THEN "AMBULANCIA_LO" ELSE "AMBULANCIA_NS"
          /\ \A c \in Carros : pc_carro'[c] # "dormindo"
          /\ \A a \in Ambulancias : pc_amb'[a] # "dormindo"]_vars

\* the controller holds the lock in its passive wait under AMBULANCIA_NS
\* although no ambulance is in any queue
C19_Witness ==
    /\ pc_fluxo = "passiva"
    /\ estado_atual = "AMBULANCIA_NS"
    /\ modo_emergencia
    /\ DemandaAmbNS = 0
    /\ DemandaAmbLO = 0

\* the controller is in the for loop of an open window
JanelaAberta == pc_fluxo \in {"janela", "tick"}

\* both queues of the axis the open window favours are empty
FilaFavorecidaVazia ==
    IF estado_atual = "FLUXO_NS"
    THEN carros_esperando["NORTE"] = 0 /\ carros_esperando["SUL"] = 0
    ELSE carros_esperando["LESTE"] = 0 /\ carros_esperando["OESTE"] = 0

\* C20: while a window is open estado_atual is not written; the window ends
\* before tempo_final ticks only at a per-tick check that finds both queues
\* of the favoured axis empty; and a check that finds a vehicle waiting there
\* goes on with the window even if modo_emergencia is set.
C20_JanelaAberta ==
    [][JanelaAberta =>
          /\ estado_atual' = estado_atual
          /\ (pc_fluxo' = "pausa" /\ i < tempo_final) =>
                 (pc_fluxo = "tick" /\ FilaFavorecidaVazia)
          /\ (pc_fluxo = "tick" /\ ~FilaFavorecidaVazia /\ modo_emergencia) =>
                 (pc_fluxo' = "janela" /\ i' = i + 1)]_vars

\* a per-tick check, not the first of its window, with the flag set and a
\* car waiting on the favoured axis
C20_Witness ==
    /\ pc_fluxo = "tick"
    /\ i > 0
    /\ modo_emergencia
    /\ ~FilaFavorecidaVazia

\* the controller is in the passive wait of the emergency branch: it has
\* written an ambulance selector and loops on modo_emergencia
EsperaPassiva == pc_fluxo \in {"passiva", "dorme_passiva", "acorda_passiva"}

\* C21: in its passive wait the controller does not write estado_atual, and
\* it leaves the wait (to start a new cycle) only in a state where
\* modo_emergencia is false, whatever the axis of the waiting ambulances.
C21_EsperaPassiva ==
    [][EsperaPassiva =>
          /\ estado_atual' = estado_atual
          /\ modo_emergencia => EsperaPassiva']_vars

\* the controller is suspended under AMBULANCIA_NS while the flag is set and
\* every waiting ambulance is on the East-West axis
C21_Witness ==
    /\ pc_fluxo = "dorme_passiva"
    /\ estado_atual = "AMBULANCIA_NS"
    /\ modo_emergencia
    /\ DemandaAmbNS = 0
    /\ DemandaAmbLO > 0

\* a thread is suspended in pthread_cond_wait although the condition of its
\* loop would let it go on
CarroPerdeuSinal(c) ==
    /\ pc_carro[c] = "dormindo"
    /\ pode_passar(direcao_carro[c], estado_atual, TIPO_CARRO)
AmbPerdeuSinal(a) ==
    /\ pc_amb[a] = "dormindo"
    /\ pode_passar(direcao_ambulancia[a], estado_atual, TIPO_AMBULANCIA)
FluxoPerdeuSinal ==
    \/ pc_fluxo \in {"dorme_drena_e", "dorme_drena_n"} /\ carros_no_cruzamento = 0
    \/ pc_fluxo = "dorme_passiva" /\ ~modo_emergencia

\* C22: in no state with the lock free is a thread suspended on pode_cruzar
\* while the condition it waits for holds (pode_passar true for a vehicle,
\* carros_no_cruzamento = 0 or modo_emergencia false for the controller).
C22_SemSinalPerdido ==
    lock = Livre =>
        /\ \A c \in Carros : ~CarroPerdeuSinal(c)
        /\ \A a \in Ambulancias : ~AmbPerdeuSinal(a)
        /\ ~FluxoPerdeuSinal

\* the last car has left and the lock is free: the controller, which was
\* suspended in a drain loop, is runnable, and so is a car that was suspended
C22_Witness ==
    /\ lock = Livre
    /\ pc_fluxo \in {"acorda_drena_e", "acorda_drena_n"}
    /\ carros_no_cruzamento = 0
    /\ \E c \in Carros : pc_carro[c] = "acordado"

\* C23: a step of a car or of an ambulance leaves estado_atual unchanged; a
\* step of the controller leaves the four waiting/crossing counters and
\* modo_emergencia unchanged; a step of a car leaves modo_emergencia and the
\* ambulance counters unchanged.
C23_DonosDasEscritas ==
    [][/\ (\E c \in Carros : carros(c)) =>
              UNCHANGED <<estado_atual, modo_emergencia, ambulancias_esperando,
                          ambulancias_no_cruzamento>>
       /\ (\E a \in Ambulancias : ambulancia(a)) => UNCHANGED estado_atual
       /\ fluxo_trafego =>
              UNCHANGED <<carros_esperando, ambulancias_esperando,
                          carros_no_cruzamento, ambulancias_no_cruzamento,
                          modo_emergencia>>]_vars

\* every writer has written: the flag is set and an ambulance is inside
\* under the ambulance selector of the East-West axis while a car waits
C23_Witness ==
    /\ modo_emergencia
    /\ estado_atual = "AMBULANCIA_LO"
    /\ ambulancias_no_cruzamento > 0
    /\ \E d \in Direcao : carros_esperando[d] > 0

\* positions between pthread_mutex_lock and the next unlock or cond_wait
CarroNaSecaoCritica(c) == pc_carro[c] \in {"enfileira", "testa", "saindo"}
AmbNaSecaoCritica(a) == pc_amb[a] \in {"anuncia", "enfileira", "testa", "saindo"}
FluxoNaSecaoCritica ==
    pc_fluxo \in {"modo", "drena_e", "drena_n", "decide_e", "decide_n",
                  "passiva", "tick"}

\* positions in which the thread is in a sleep(): approach and crossing of a
\* car; idle, grace and crossing of an ambulance; cycle pause and window tick
\* of the controller
CarroEmAtraso(c) == pc_carro[c] \in {"aproximando", "cruzando"}
AmbEmAtraso(a) == pc_amb[a] \in {"inicio", "graca", "cruzando"}
FluxoEmAtraso == pc_fluxo \in {"pausa", "janela"}

\* C24: at most one thread is inside a critical section, the lock belongs to
\* that thread, and no thread holds the lock during a sleep(); in particular
\* not the ambulance in its grace delay after the announcement.
C24_LockForaDosAtrasos ==
    /\ Cardinality({c \in Carros : CarroNaSecaoCritica(c)})
         + Cardinality({a \in Ambulancias : AmbNaSecaoCritica(a)})
         + (IF FluxoNaSecaoCritica THEN 1 ELSE 0) <= 1
    /\ \A c \in Carros : CarroNaSecaoCritica(c) <=> lock = ThCarro(c)
    /\ \A a \in Ambulancias : AmbNaSecaoCritica(a) <=> lock = ThAmb(a)
    /\ FluxoNaSecaoCritica <=> lock = ThFluxo
    /\ \A c \in Carros : CarroEmAtraso(c) => lock # ThCarro(c)
    /\ \A a \in Ambulancias : AmbEmAtraso(a) => lock # ThAmb(a)
    /\ FluxoEmAtraso => lock # ThFluxo

\* an ambulance is in its grace delay while another thread holds the lock
C24_Witness ==
    \E a \in Ambulancias :
        /\ pc_amb[a] = "graca"
        /\ modo_emergencia
        /\ lock # Livre
        /\ lock # ThAmb(a)

\* the controller and every vehicle thread are suspended in
\* pthread_cond_wait: nobody is left to broadcast, no thread can take a step
TodosSuspensos ==
    /\ pc_fluxo \in {"dorme_drena_e", "dorme_drena_n", "dorme_passiva"}
    /\ \A c \in Carros : pc_carro[c] = "dormindo"
    /\ \A a \in Ambulancias : pc_amb[a] = "dormindo"

\* C25: no reachable state has the controller and every vehicle thread
\* suspended on pode_cruzar, for any population (East-West ambulances only
\* included).
C25_SemDeadlock == ~TodosSuspensos

====
